---------------------------- MODULE Spec2Model ----------------------------
(***************************************************************************)
(* matrix/rotate_matrix.py: rotation of a grid (a Python list of lists)    *)
(* by 90, 180 and 270 degrees counterclockwise, built from transpose,      *)
(* reverse_row and reverse_column, and make_matrix.                        *)
(*                                                                         *)
(* Python lists are objects with identity, so the model keeps a heap: a    *)
(* sequence of list objects, the address of an object being its index.     *)
(* A row is a list of integers; a grid is a list of row addresses.  Every  *)
(* function takes the heap and the address of its argument and returns the *)
(* heap after its allocations together with the address it returns.        *)
(***************************************************************************)
EXTENDS Integers, Sequences, FiniteSets

\* ----------------------------------------------------------------- bounds
\* Largest literal grid the caller writes down (non_square is 2 x 3).
MaxRows == 2
MaxCols == 3
\* make_matrix is called with row_size in -MaxSize .. MaxSize.
MaxSize == 4
\* Steps (calls, drops, in-place writes) the caller makes on one matrix.
MaxTrail == 3
\* The same for the runs in which the caller only rotates, the runs that
\* start from a jagged grid and the runs in which the caller writes in place.
MaxRotateTrail == 4
MaxJaggedTrail == 2
MaxAliasTrail == 3

\* ------------------------------------------------------ program constants
\* `abs(row_size) or 4`, and the default of the parameter row_size.
DefaultSize == 4

VARIABLES
    heap,       \* the list objects: heap[a] is the list at address a
    matrix,     \* the caller's grid (`matrix` / `non_square` of the demo)
    arg,        \* the grid passed to the most recent transform call, 0 if none
    result,     \* the grid the most recent transform call returned, 0 if none
    last,       \* the most recent call that built a grid: <<function name>>,
                \* and <<"make_matrix", row_size>> for make_matrix
    trail,      \* what the caller did since `matrix` was bound, in order
    budget      \* how many steps the caller makes on one matrix

vars == <<heap, matrix, arg, result, last, trail, budget>>

\* ---------------------------------------------------------------- helpers
Abs(k) == IF k < 0 THEN -k ELSE k

\* s[::-1]: a new list with the items of s in reverse order.
Reverse(s) == [i \in 1..Len(s) |-> s[Len(s) + 1 - i]]

\* The value of the grid at address g: the sequence of its rows' contents.
Val(h, g) == [i \in 1..Len(h[g]) |-> h[h[g][i]]]

\* Allocate the rows `rows` (a sequence of integer lists) and then an outer
\* list holding their addresses in order; return the new heap and the outer
\* list's address.
NewGrid(h, rows) ==
    LET n  == Len(rows)
        h1 == h \o rows
        h2 == Append(h1, [i \in 1..n |-> Len(h) + i])
    IN  [heap |-> h2, ref |-> Len(h2)]

\* zip(*matrix) stops at the shortest row; zip() of no rows yields nothing.
ZipLen(h, m) ==
    IF Len(h[m]) = 0 THEN 0
    ELSE LET lens == {Len(h[h[m][j]]) : j \in 1..Len(h[m])}
         IN  CHOOSE k \in lens : \A l \in lens : k <= l

\* ------------------------------------------------------------- primitives
\* Mutant: [list(x) for x in matrix], a copy that swaps nothing.
transpose_copy(h, m) ==
    NewGrid(h, [i \in 1..Len(h[m]) |-> h[h[m][i]]])

\* Mutant: zip_longest(*matrix, fillvalue=0), padding instead of truncating.
transpose_padded(h, m) ==
    LET lens == {Len(h[h[m][j]]) : j \in 1..Len(h[m])}
        w    == IF lens = {} THEN 0 ELSE CHOOSE k \in lens : \A l \in lens : k >= l
    IN  NewGrid(h, [i \in 1..w |->
                       [j \in 1..Len(h[m]) |->
                           IF i <= Len(h[h[m][j]]) THEN h[h[m][j]][i] ELSE 0]])

\* [list(x) for x in zip(*matrix)]
transpose(h, m) ==
    NewGrid(h, [i \in 1..ZipLen(h, m) |->
                   [j \in 1..Len(h[m]) |-> h[h[m][j]][i]]])

\* Mutant: matrix[1:] + matrix[:1], the rows rotated by one, not reversed.
reverse_row_shift(h, m) ==
    LET n  == Len(h[m])
        h1 == Append(h, [i \in 1..n |-> h[m][(i % n) + 1]])
    IN  [heap |-> h1, ref |-> Len(h1)]

\* Mutant: matrix.reverse(); return matrix.
reverse_row_in_place(h, m) ==
    [heap |-> [h EXCEPT ![m] = Reverse(@)], ref |-> m]

\* matrix[::-1]: a new outer list, the same row objects.
reverse_row(h, m) ==
    LET h1 == Append(h, Reverse(h[m]))
    IN  [heap |-> h1, ref |-> Len(h1)]

\* Mutant: [x[1:] + x[:1] for x in matrix].
reverse_column_shift(h, m) ==
    NewGrid(h, [i \in 1..Len(h[m]) |->
                   LET x == h[h[m][i]]
                   IN  [j \in 1..Len(x) |-> x[(j % Len(x)) + 1]]])

\* [x[::-1] for x in matrix]
reverse_column(h, m) ==
    NewGrid(h, [i \in 1..Len(h[m]) |-> Reverse(h[h[m][i]])])

\* -------------------------------------------------------------- rotations
\* Mutant: reverse_column(transpose(matrix)), the clockwise turn.
rotate_90_clockwise(h, m) ==
    LET t == transpose(h, m) IN reverse_column(t.heap, t.ref)

rotate_90(h, m) ==
    LET t == transpose(h, m) IN reverse_row(t.heap, t.ref)

\* Mutant: reverse_row(matrix), the columns forgotten.
rotate_180_rows_only(h, m) == reverse_row(h, m)

\* Mutant: for x in matrix: x.reverse(); return matrix[::-1].
rotate_180_shared(h, m) ==
    LET rows == {h[m][i] : i \in 1..Len(h[m])}
        h1   == [a \in 1..Len(h) |-> IF a \in rows THEN Reverse(h[a]) ELSE h[a]]
    IN  reverse_row(h1, m)

rotate_180(h, m) ==
    LET c == reverse_column(h, m) IN reverse_row(c.heap, c.ref)

\* Mutant: transpose(reverse_column(matrix)), the two steps swapped.
rotate_270_swapped(h, m) ==
    LET c == reverse_column(h, m) IN transpose(c.heap, c.ref)

rotate_270(h, m) ==
    LET t == transpose(h, m) IN reverse_column(t.heap, t.ref)

\* ------------------------------------------------------------ make_matrix
\* Mutant: row_size = abs(row_size), the `or 4` forgotten.
make_matrix_no_default(h, k) ==
    LET n == Abs(k)
    IN  NewGrid(h, [y \in 1..n |-> [x \in 1..n |-> 1 + (x - 1) + (y - 1) * n]])

make_matrix(h, k) ==
    LET n == IF Abs(k) # 0 THEN Abs(k) ELSE DefaultSize
    IN  NewGrid(h, [y \in 1..n |-> [x \in 1..n |-> 1 + (x - 1) + (y - 1) * n]])

\* A grid the caller writes down, like non_square = [[1, 2, 3], [4, 5, 6]]:
\* row y has lens[y] items, numbered on from the previous row.
RECURSIVE Before(_, _)
Before(lens, y) == IF y = 1 THEN 0 ELSE Before(lens, y - 1) + lens[y - 1]

literal(h, lens) ==
    NewGrid(h, [y \in 1..Len(lens) |-> [x \in 1..lens[y] |-> Before(lens, y) + x]])

\* ------------------------------------------------------------------ state
Transforms == {"transpose", "reverse_row", "reverse_column",
               "rotate_90", "rotate_180", "rotate_270"}

Apply(op, h, m) ==
    CASE op = "transpose"      -> transpose(h, m)
      [] op = "reverse_row"    -> reverse_row(h, m)
      [] op = "reverse_column" -> reverse_column(h, m)
      [] op = "rotate_90"      -> rotate_90(h, m)
      [] op = "rotate_180"     -> rotate_180(h, m)
      [] op = "rotate_270"     -> rotate_270(h, m)

\* The demo starts with matrix = make_matrix().
Start(b) ==
    LET r == make_matrix(<<>>, DefaultSize)
    IN  /\ heap = r.heap
        /\ matrix = r.ref
        /\ arg = 0
        /\ result = 0
        /\ last = <<"make_matrix", DefaultSize>>
        /\ trail = <<>>
        /\ budget = b

Init == Start(MaxTrail)

\* func(x) where x is the previous result if there is one, else the matrix.
Call(op) ==
    /\ LET a == IF result = 0 THEN matrix ELSE result
           r == Apply(op, heap, a)
       IN  /\ heap' = r.heap
           /\ arg' = a
           /\ result' = r.ref
    /\ last' = <<op>>
    /\ trail' = Append(trail, op)
    /\ UNCHANGED <<matrix, budget>>

Transpose ==
    /\ Len(trail) < budget
    /\ Call("transpose")

ReverseRow ==
    /\ Len(trail) < budget
    /\ Call("reverse_row")

ReverseColumn ==
    /\ Len(trail) < budget
    /\ Call("reverse_column")

Rotate90 ==
    /\ Len(trail) < budget
    /\ Call("rotate_90")

Rotate180 ==
    /\ Len(trail) < budget
    /\ Call("rotate_180")

Rotate270 ==
    /\ Len(trail) < budget
    /\ Call("rotate_270")


\* The caller lets go of the results and goes back to its matrix; only the
\* matrix's own objects (allocated first) stay.
Drop ==
    /\ result # 0
    /\ Len(trail) < budget
    /\ heap' = SubSeq(heap, 1, matrix)
    /\ arg' = 0
    /\ result' = 0
    /\ trail' = Append(trail, "drop")
    /\ UNCHANGED <<matrix, last, budget>>

\* matrix = make_matrix(k), once the caller holds no result (the demo prints
\* func(matrix) and keeps nothing of it): the old matrix is released.
MakeMatrix ==
    \E k \in (-MaxSize)..MaxSize :
        LET r == make_matrix(<<>>, k)
        IN  /\ result = 0
            /\ heap' = r.heap
            /\ matrix' = r.ref
            /\ arg' = 0
            /\ result' = 0
            /\ last' = <<"make_matrix", k>>
            /\ trail' = <<>>
            /\ UNCHANGED budget

\* non_square = [[1, 2, 3], [4, 5, 6]] and other rectangular literals.
Literal ==
    \E R \in 1..MaxRows, C \in 1..MaxCols :
        LET r == literal(<<>>, [y \in 1..R |-> C])
        IN  /\ result = 0
            /\ heap' = r.heap
            /\ matrix' = r.ref
            /\ arg' = 0
            /\ result' = 0
            /\ last' = <<"literal">>
            /\ trail' = <<>>
            /\ UNCHANGED budget

Next ==
    \/ Transpose
    \/ ReverseRow
    \/ ReverseColumn
    \/ Rotate90
    \/ Rotate180
    \/ Rotate270
    \/ Drop
    \/ MakeMatrix
    \/ Literal

Spec == Init /\ [][Next]_vars

\* ------------------------------- runs in which the caller only rotates
InitRotate == Start(MaxRotateTrail)

NextRotate ==
    \/ Rotate90
    \/ Rotate180
    \/ Rotate270
    \/ Drop
    \/ MakeMatrix
    \/ Literal

SpecRotate == InitRotate /\ [][NextRotate]_vars

\* ----------------------------------------------- runs from a jagged grid
\* The caller's grid has rows of unequal length (0 .. MaxCols items each).
JaggedLens ==
    {lens \in UNION {[1..R -> 0..MaxCols] : R \in 1..MaxRows} :
        \E y \in 1..Len(lens) : lens[y] # lens[1]}

InitJagged ==
    \E lens \in JaggedLens :
        LET r == literal(<<>>, lens)
        IN  /\ heap = r.heap
            /\ matrix = r.ref
            /\ arg = 0
            /\ result = 0
            /\ last = <<"literal">>
            /\ trail = <<>>
            /\ budget = MaxJaggedTrail

NextJagged ==
    \/ Transpose
    \/ ReverseRow
    \/ ReverseColumn
    \/ Rotate90
    \/ Rotate180
    \/ Rotate270
    \/ Drop

SpecJagged == InitJagged /\ [][NextJagged]_vars

\* ------------------------------------- runs where the caller writes in place
\* result[i][j] = -result[i][j]
SetItem ==
    /\ result # 0
    /\ Len(trail) < budget
    /\ \E i \in 1..Len(heap[result]) :
           \E j \in 1..Len(heap[heap[result][i]]) :
               heap' = [heap EXCEPT ![heap[result][i]][j] = -@]
    /\ trail' = Append(trail, "setitem")
    /\ UNCHANGED <<matrix, arg, result, last, budget>>

\* result.reverse()
ReverseInPlace ==
    /\ result # 0
    /\ Len(trail) < budget
    /\ heap' = [heap EXCEPT ![result] = Reverse(@)]
    /\ trail' = Append(trail, "reverse")
    /\ UNCHANGED <<matrix, arg, result, last, budget>>

InitAlias == Start(MaxAliasTrail)

NextAlias ==
    \/ Transpose
    \/ ReverseRow
    \/ ReverseColumn
    \/ Rotate90
    \/ Rotate180
    \/ Rotate270
    \/ Drop
    \/ MakeMatrix
    \/ Literal
    \/ SetItem
    \/ ReverseInPlace

SpecAlias == InitAlias /\ [][NextAlias]_vars

\* ================================================================= claims
\* The grids the caller holds.
Held == {matrix} \cup (IF result = 0 THEN {} ELSE {arg, result})

\* Rectangular, with at least one row and one column.
Rect(h, g) ==
    /\ Len(h[g]) >= 1
    /\ Len(h[h[g][1]]) >= 1
    /\ \A i \in 1..Len(h[g]) : Len(h[h[g][i]]) = Len(h[h[g][1]])

NRows(h, g) == Len(h[g])
NCols(h, g) == Len(h[h[g][1]])

\* <<rows, columns>> of a grid value, every row measured.
HasShape(v, R, C) == Len(v) = R /\ \A i \in 1..R : Len(v[i]) = C

\* What the caller did since it last went back to its matrix.
Chain ==
    LET D == {i \in 1..Len(trail) : trail[i] = "drop"}
        d == IF D = {} THEN 0 ELSE CHOOSE i \in D : \A j \in D : j <= i
    IN  SubSeq(trail, d + 1, Len(trail))

\* The most recent step was a call of op, whose result nobody has touched.
JustCalled(op) == trail # <<>> /\ trail[Len(trail)] = op /\ result # 0

\* The value a function record (heap, ref) denotes.
Out(r) == Val(r.heap, r.ref)

\* C1: four applications of rotate_90 give back the grid, shape and values,
\* square or not, and the intermediate shapes alternate C x R, R x C.
C1_FourRotationsIdentity ==
    /\ \A g \in Held : Rect(heap, g) =>
          LET R  == NRows(heap, g)
              C  == NCols(heap, g)
              r1 == rotate_90(heap, g)
              r2 == rotate_90(r1.heap, r1.ref)
              r3 == rotate_90(r2.heap, r2.ref)
              r4 == rotate_90(r3.heap, r3.ref)
          IN  /\ Out(r4) = Val(heap, g)
              /\ HasShape(Out(r1), C, R)
              /\ HasShape(Out(r2), R, C)
              /\ HasShape(Out(r3), C, R)
              /\ HasShape(Out(r4), R, C)
    /\ (Chain = <<"rotate_90", "rotate_90", "rotate_90", "rotate_90">>
          => Val(heap, result) = Val(heap, matrix))
    /\ (/\ Len(Chain) >= 1
        /\ \A i \in 1..Len(Chain) : Chain[i] = "rotate_90"
        /\ Rect(heap, matrix))
          => IF Len(Chain) % 2 = 1
             THEN HasShape(Val(heap, result), NCols(heap, matrix), NRows(heap, matrix))
             ELSE HasShape(Val(heap, result), NRows(heap, matrix), NCols(heap, matrix))

C1_Witness ==
    /\ Chain = <<"rotate_90", "rotate_90", "rotate_90", "rotate_90">>
    /\ NRows(heap, matrix) # NCols(heap, matrix)
    /\ result # matrix
    /\ Val(heap, result) = Val(heap, matrix)
    /\ Val(heap, arg) # Val(heap, matrix)

\* C2: rotate_90 twice equals rotate_180 once.
C2_TwiceIs180 ==
    /\ \A g \in Held : Rect(heap, g) =>
          LET r1 == rotate_90(heap, g)
              r2 == rotate_90(r1.heap, r1.ref)
          IN  Out(r2) = Out(rotate_180(heap, g))
    /\ (Chain = <<"rotate_90", "rotate_90">>
          => Val(heap, result) = Out(rotate_180(heap, matrix)))

C2_Witness ==
    /\ Chain = <<"rotate_90", "rotate_90">>
    /\ NRows(heap, matrix) # NCols(heap, matrix)
    /\ NCols(heap, matrix) > 1
    /\ Val(heap, result) = Out(rotate_180(heap, matrix))

\* C3: rotate_270 equals rotate_90 three times.
C3_270IsThrice ==
    /\ \A g \in Held : Rect(heap, g) =>
          LET r1 == rotate_90(heap, g)
              r2 == rotate_90(r1.heap, r1.ref)
              r3 == rotate_90(r2.heap, r2.ref)
          IN  Out(rotate_270(heap, g)) = Out(r3)
    /\ (Chain = <<"rotate_90", "rotate_90", "rotate_90">>
          => Val(heap, result) = Out(rotate_270(heap, matrix)))
    /\ (Chain = <<"rotate_270">>
          => LET r1 == rotate_90(heap, matrix)
                 r2 == rotate_90(r1.heap, r1.ref)
                 r3 == rotate_90(r2.heap, r2.ref)
             IN  Val(heap, result) = Out(r3))

C3_Witness ==
    /\ Chain = <<"rotate_90", "rotate_90", "rotate_90">>
    /\ NRows(heap, matrix) # NCols(heap, matrix)
    /\ NCols(heap, matrix) > 1
    /\ Val(heap, result) = Out(rotate_270(heap, matrix))

\* C4: make_matrix(row_size) is the n x n grid with cell (y, x) = 1 + x + y*n
\* (0-indexed), n = |row_size|, or 4 when row_size = 0; so make_matrix(k) =
\* make_matrix(-k) and make_matrix(0) = make_matrix(4).
C4_MakeMatrix ==
    last[1] = "make_matrix" =>
        LET k == last[2]
            n == IF k > 0 THEN k ELSE IF k < 0 THEN 0 - k ELSE 4
            v == Val(heap, matrix)
        IN  /\ HasShape(v, n, n)
            /\ \A y \in 0..(n - 1) : \A x \in 0..(n - 1) :
                   v[y + 1][x + 1] = 1 + x + y * n
            /\ Out(make_matrix(<<>>, 0 - k)) = v
            /\ (k = 0 => Out(make_matrix(<<>>, 4)) = v)

C4_Witness ==
    /\ last = <<"make_matrix", 0>>
    /\ trail = <<>>
    /\ Val(heap, matrix)[4] = <<13, 14, 15, 16>>

\* C5: a call of a transform leaves its argument as it was: the same row
\* objects in the same order, every row with the same items.
C5_ArgumentUntouched ==
    [][(/\ Len(trail') = Len(trail) + 1
        /\ trail'[Len(trail')] \in Transforms)
          => /\ heap'[arg'] = heap[arg']
             /\ \A i \in 1..Len(heap[arg']) :
                    heap'[heap[arg'][i]] = heap[heap[arg'][i]]
             /\ Val(heap', matrix') = Val(heap, matrix)]_vars

C5_Witness ==
    /\ Len(trail) >= 3
    /\ trail[Len(trail) - 1] = "drop"
    /\ JustCalled("rotate_180")
    /\ last = <<"rotate_180">>
    /\ arg = matrix
    /\ NRows(heap, matrix) # NCols(heap, matrix)
    /\ Val(heap, result) = Out(rotate_180(heap, matrix))

\* C6: rotate_90 of an R x C grid is C x R with result[i][j] = m[j][C-1-i]
\* (0-indexed).
C6_Rotate90Cells ==
    (JustCalled("rotate_90") /\ Rect(heap, arg)) =>
        LET R == NRows(heap, arg)
            C == NCols(heap, arg)
            m == Val(heap, arg)
            v == Val(heap, result)
        IN  /\ HasShape(v, C, R)
            /\ \A i \in 0..(C - 1) : \A j \in 0..(R - 1) :
                   v[i + 1][j + 1] = m[j + 1][(C - 1 - i) + 1]

C6_Witness ==
    /\ JustCalled("rotate_90")
    /\ Val(heap, arg) = <<<<1, 2, 3>>, <<4, 5, 6>>>>
    /\ Val(heap, result) = <<<<3, 6>>, <<2, 5>>, <<1, 4>>>>

\* C7: transpose of an R x C grid is C x R with result[i][j] = m[j][i].
C7_TransposeCells ==
    (JustCalled("transpose") /\ Rect(heap, arg)) =>
        LET R == NRows(heap, arg)
            C == NCols(heap, arg)
            m == Val(heap, arg)
            v == Val(heap, result)
        IN  /\ HasShape(v, C, R)
            /\ \A i \in 0..(C - 1) : \A j \in 0..(R - 1) :
                   v[i + 1][j + 1] = m[j + 1][i + 1]

C7_Witness ==
    /\ JustCalled("transpose")
    /\ Val(heap, arg) = <<<<1, 2, 3>>, <<4, 5, 6>>>>
    /\ Val(heap, result) = <<<<1, 4>>, <<2, 5>>, <<3, 6>>>>

\* C8: transpose, reverse_row and reverse_column are each their own inverse.
C8_Involutions ==
    /\ \A g \in Held : Rect(heap, g) =>
          LET t == transpose(heap, g)
              r == reverse_row(heap, g)
              c == reverse_column(heap, g)
          IN  /\ Out(transpose(t.heap, t.ref)) = Val(heap, g)
              /\ Out(reverse_row(r.heap, r.ref)) = Val(heap, g)
              /\ Out(reverse_column(c.heap, c.ref)) = Val(heap, g)
    /\ \A op \in {"transpose", "reverse_row", "reverse_column"} :
          Chain = <<op, op>> => Val(heap, result) = Val(heap, matrix)

C8_Witness ==
    /\ Chain = <<"transpose", "transpose">>
    /\ NRows(heap, matrix) # NCols(heap, matrix)
    /\ Val(heap, result) = Val(heap, matrix)
    /\ Val(heap, arg) # Val(heap, matrix)

\* C9: what transpose, rotate_90, rotate_180 and rotate_270 return shares no
\* list object with the argument, so a later in-place write to the result
\* (to its row order or to an item of a row) leaves the argument as it was.
FreshOps == {"transpose", "rotate_90", "rotate_180", "rotate_270"}

Objects(h, g) == {g} \cup {h[g][i] : i \in 1..Len(h[g])}

C9_ResultFresh ==
    /\ [](result # 0 /\ last[1] \in FreshOps
            => Objects(heap, result) \cap Objects(heap, arg) = {})
    /\ [][(/\ last[1] \in FreshOps
           /\ Len(trail') = Len(trail) + 1
           /\ trail'[Len(trail')] \in {"setitem", "reverse"})
             => /\ Val(heap', arg) = Val(heap, arg)
                /\ heap'[arg] = heap[arg]]_vars

C9_Witness ==
    /\ result # 0
    /\ last = <<"rotate_180">>
    /\ Len(trail) = 2
    /\ trail[2] = "setitem"
    /\ arg = matrix
    /\ Val(heap, arg) = <<<<1, 2, 3>>, <<4, 5, 6>>>>
    /\ Val(heap, result) = <<<<6, 5, 4>>, <<3, 2, -1>>>>

\* C10: on a jagged grid transpose does not fail; with k the length of the
\* shortest row it returns k rows of length R, result[i][j] = m[j][i], and
\* drops every item at a column index >= k; rotate_90 and rotate_270 return
\* the rotation of those first k columns.
ShortestRow(h, g, k) ==
    /\ \E j \in 1..Len(h[g]) : Len(h[h[g][j]]) = k
    /\ \A j \in 1..Len(h[g]) : Len(h[h[g][j]]) >= k

C10_JaggedTruncates ==
    \A k \in {Len(heap[a]) : a \in 1..Len(heap)} :
        (result # 0 /\ Len(heap[arg]) >= 1 /\ ShortestRow(heap, arg, k)) =>
            LET R == Len(heap[arg])
                m == Val(heap, arg)
                v == Val(heap, result)
            IN  /\ JustCalled("transpose") =>
                    /\ HasShape(v, k, R)
                    /\ \A i \in 1..k : \A j \in 1..R : v[i][j] = m[j][i]
                /\ JustCalled("rotate_90") =>
                    /\ HasShape(v, k, R)
                    /\ \A i \in 1..k : \A j \in 1..R : v[i][j] = m[j][k + 1 - i]
                /\ JustCalled("rotate_270") =>
                    /\ HasShape(v, k, R)
                    /\ \A i \in 1..k : \A j \in 1..R : v[i][j] = m[R + 1 - j][i]

C10_Witness ==
    /\ JustCalled("transpose")
    /\ arg = matrix
    /\ Val(heap, arg) = <<<<1, 2, 3>>, <<4>>>>
    /\ Val(heap, result) = <<<<1, 4>>>>

=============================================================================
